---- MODULE Spec2Model ----
(***************************************************************************)
(* A model of power_nlp's commitment-decision engine:                      *)
(*   - the Commitment Selector (heuristicas/utils.py: on_off,              *)
(*     on_off_refinado, refinar, gerar_z_fixo),                            *)
(*   - the brute-force reference search (heuristicas/forca_bruta.py),      *)
(*   - the mode/solve state machine of DespachoNLP                         *)
(*     (model_nlp/despacho_nlp.py).                                        *)
(* Frames (pandas DataFrames) are sequences of rows; a row is a function   *)
(* from column names to values; row i of the sequence has index i-1.       *)
(***************************************************************************)
EXTENDS Integers, Sequences, FiniteSets, TLC

VARIABLES
    pc,           \* position of the driver being modelled
    dger,         \* list of generator records (input)
    cargas,       \* list of load records: hora, carga, reserva (input)
    prioridades,  \* priority order handed to the selector (input)
    ligados_g,    \* on_off: per period, the list `ligados`
    df_on_off,    \* on_off: the returned status frame
    ligados_r,    \* on_off_refinado: per period, the list `ligados`
    df_refinado,  \* on_off_refinado: the returned status frame
    z_h,          \* heuristic driver: gerar_z_fixo of its status frame
    custo_h,      \* heuristic driver: get_custos_tempo, cost per period
    status_h,     \* heuristic driver: the status the solver ended with
    combinacoes,  \* forca_bruta: comb_viaveis' result
    z_bruto,      \* forca_bruta: z_bruto_completo's result
    pesquisa,     \* forca_bruta: the list of (t, j, fob)
    df_fob,       \* forca_bruta: the frame melhor_fob_h returns
    erro,         \* the exception a driver ended with, or "None"
    model,        \* DespachoNLP.model: "None" or the built model
    _usar_odf,    \* DespachoNLP._usar_odf
    ativas,       \* the constraint components of the model that are active
    x_bounds,     \* (lb, ub) of every x[g, t]
    obj,          \* the expression the objective was built with
    valores,      \* where the values of P come from: "None", "inicial", "solver"
    dual,         \* the constraint components the suffix `dual` has values for
    status,       \* termination of the last solve of the model
    modo_solve,   \* _usar_odf at the last solve: "None", "fixo", "odf"
    retorno,      \* what the last call returned or raised
    chamadas,     \* the last two calls made on the object
    ordens,       \* indicador_itr: `ordem`, the orders of the six heuristics (input)
    n_iter,       \* tabela_relevancia: number of draws per period (input)
    sorteios,     \* the draws random.choice made, per iteration and period
    rodada,       \* number of runs of tabela_relevancia made so far
    relevancia,   \* tabela_relevancia: the table of the last run
    ordem_final,  \* tabela_relevancia: the final order of each run
    resultado     \* the last priority strategy run: its name, the solver
                  \* values it read, what it returned or raised

selVars == <<ligados_g, df_on_off, ligados_r, df_refinado>>
heuVars == <<z_h, custo_h, status_h>>
fbVars  == <<combinacoes, z_bruto, pesquisa, df_fob>>
nlpVars == <<model, _usar_odf, ativas, x_bounds, obj, valores, dual, status, modo_solve, retorno, chamadas>>
itrVars == <<ordens, n_iter, sorteios, rodada, relevancia, ordem_final>>
extras == <<nlpVars, itrVars, resultado>>
vars == <<pc, dger, cargas, prioridades, selVars, heuVars, fbVars, erro, extras>>

----------------------------------------------------------------------------
(* Bounds of the model *)

MaxPg == 2       \* pgmin, pgmax range over 1..MaxPg
MaxCarga == 4    \* carga ranges over 1..MaxCarga
MaxRes == 1      \* reserva ranges over 0..MaxRes

Ids == <<"G1", "G2", "G3">>
IdSet == {Ids[i] : i \in DOMAIN Ids}

\* cost curves (a, b, c) of cost(P) = a + b*P + c*P^2 a generator may have
Curvas == { <<0, 2, 0>>, <<1, 0, 1>>, <<3, 0, 0>> }

----------------------------------------------------------------------------
(* Generic helpers *)

Range(s) == { s[i] : i \in DOMAIN s }

Perms(S) ==
    { s \in [1..Cardinality(S) -> S] : \A i, j \in DOMAIN s : i # j => s[i] # s[j] }

----------------------------------------------------------------------------
(* heuristicas/utils.py *)

\* mapa_gerador = {g["id"]: g for g in geradores}
mapa_gerador(geradores, gid) ==
    LET idx == { i \in DOMAIN geradores : geradores[i].id = gid }
        \* a dict comprehension keeps the last record of a repeated id
        last == CHOOSE i \in idx : \A j \in idx : j <= i
    IN geradores[last]

\* a cost that leaves the fixed term out
custo_sem_fixo(g, p) == g.b * p + g.c * p * p

\* refinar, lines 226-228 and 244-246: a + b*geracao + c*geracao**2
custo(g, p) == g.a + g.b * p + g.c * p * p

\* sum(mapa_gerador[g]["pgmin"] for g in lista)
RECURSIVE soma_pgmin_de(_, _)
soma_pgmin_de(geradores, lista) ==
    IF lista = <<>> THEN 0
    ELSE mapa_gerador(geradores, Head(lista)).pgmin + soma_pgmin_de(geradores, Tail(lista))

\* sum(mapa_gerador[g]["pgmax"] for g in lista)
RECURSIVE soma_pgmax_de(_, _)
soma_pgmax_de(geradores, lista) ==
    IF lista = <<>> THEN 0
    ELSE mapa_gerador(geradores, Head(lista)).pgmax + soma_pgmax_de(geradores, Tail(lista))

\* the test of on_off / on_off_refinado / refinar / comb_viaveis:
\* soma_gmin <= carga and soma_gmax >= demanda
viavel(soma_gmin, soma_gmax, carga, demanda) ==
    soma_gmin <= carga /\ soma_gmax >= demanda

\* a walk that never stops early: the whole order is committed
on_off_loop_sem_parada(geradores, prioridade_t, carga, demanda, i, soma_gmin, soma_gmax, ligados) ==
    prioridade_t

\* on_off, lines 55-64: the walk over prioridade_t from position i on, with
\* the running sums and the list `ligados` built so far
RECURSIVE on_off_loop(_, _, _, _, _, _, _, _)
on_off_loop(geradores, prioridade_t, carga, demanda, i, soma_gmin, soma_gmax, ligados) ==
    IF i > Len(prioridade_t) THEN ligados
    ELSE LET g     == mapa_gerador(geradores, prioridade_t[i])
             gmax  == soma_gmax + g.pgmax
             gmin  == soma_gmin + g.pgmin
             lig   == Append(ligados, prioridade_t[i])
         IN IF viavel(gmin, gmax, carga, demanda)
            THEN lig
            ELSE on_off_loop(geradores, prioridade_t, carga, demanda, i + 1, gmin, gmax, lig)

\* on_off, lines 42-69: `resultados`, one {hora, ligados} entry per period
on_off_resultados(geradores, prioridade, cs) ==
    [t \in 1..Len(cs) |->
        [hora    |-> cs[t].hora,
         ligados |-> on_off_loop(geradores, prioridade, cs[t].carga,
                                 cs[t].carga + cs[t].reserva, 1, 0, 0, <<>>)]]

\* on_off, lines 71-79 (and on_off_refinado, lines 134-142): the binary frame
status_frame(geradores, resultados) ==
    [i \in 1..Len(resultados) |->
        [col \in {"hora"} \cup {geradores[k].id : k \in DOMAIN geradores} |->
            IF col = "hora" THEN resultados[i].hora
            ELSE IF col \in Range(resultados[i].ligados) THEN 1 ELSE 0]]

\* a scan that stops at the first cheaper candidate
RECURSIVE refinar_loop_primeiro(_, _, _, _, _, _, _, _, _, _)
refinar_loop_primeiro(geradores, prioridade_t, usados, carga, demanda, soma_pgmin, soma_pgmax, geracao, i, melhor) ==
    IF i > Len(prioridade_t) THEN melhor
    ELSE LET cand_id == prioridade_t[i]
             g_cand  == mapa_gerador(geradores, cand_id)
             toma == /\ cand_id \notin usados
                     /\ viavel(soma_pgmin + g_cand.pgmin, soma_pgmax + g_cand.pgmax, carga, demanda)
                     /\ g_cand.pgmin <= geracao /\ geracao <= g_cand.pgmax
                     /\ custo(g_cand, geracao) < melhor.custo
         IN IF toma THEN [id |-> cand_id, custo |-> custo(g_cand, geracao)]
            ELSE refinar_loop_primeiro(geradores, prioridade_t, usados, carga, demanda,
                                       soma_pgmin, soma_pgmax, geracao, i + 1, melhor)

\* refinar's scan with the feasibility test of the substitution left out
RECURSIVE refinar_loop_sem_viabilidade(_, _, _, _, _, _, _, _, _, _)
refinar_loop_sem_viabilidade(geradores, prioridade_t, usados, carga, demanda, soma_pgmin, soma_pgmax, geracao, i, melhor) ==
    IF i > Len(prioridade_t) THEN melhor
    ELSE LET cand_id == prioridade_t[i]
             g_cand  == mapa_gerador(geradores, cand_id)
             toma == /\ cand_id \notin usados
                     /\ g_cand.pgmin <= geracao /\ geracao <= g_cand.pgmax
                     /\ custo(g_cand, geracao) < melhor.custo
             prox == IF toma THEN [id |-> cand_id, custo |-> custo(g_cand, geracao)]
                     ELSE melhor
         IN refinar_loop_sem_viabilidade(geradores, prioridade_t, usados, carga, demanda,
                                         soma_pgmin, soma_pgmax, geracao, i + 1, prox)

\* refinar, lines 232-249: the scan of the candidates from position i on,
\* keeping the best (strictly cheaper) candidate found so far
RECURSIVE refinar_loop(_, _, _, _, _, _, _, _, _, _)
refinar_loop(geradores, prioridade_t, usados, carga, demanda, soma_pgmin, soma_pgmax, geracao, i, melhor) ==
    IF i > Len(prioridade_t) THEN melhor
    ELSE LET cand_id == prioridade_t[i]
             g_cand  == mapa_gerador(geradores, cand_id)
             nova_pgmin == soma_pgmin + g_cand.pgmin
             nova_pgmax == soma_pgmax + g_cand.pgmax
             toma == /\ cand_id \notin usados
                     /\ viavel(nova_pgmin, nova_pgmax, carga, demanda)
                     /\ g_cand.pgmin <= geracao /\ geracao <= g_cand.pgmax
                     /\ custo(g_cand, geracao) < melhor.custo
             prox == IF toma THEN [id |-> cand_id, custo |-> custo(g_cand, geracao)]
                     ELSE melhor
         IN refinar_loop(geradores, prioridade_t, usados, carga, demanda,
                         soma_pgmin, soma_pgmax, geracao, i + 1, prox)

\* an estimate that looks only at the generators committed before
geracao_so_anteriores(g_atual, soma_pgmax, carga) ==
    IF soma_pgmax >= carga THEN g_atual.pgmin ELSE carga - soma_pgmax

\* refinar, lines 219-223: the estimated output of the last committed unit
geracao_estimada(g_atual, soma_pgmax, carga) ==
    IF soma_pgmax >= carga \/ soma_pgmax + g_atual.pgmin >= carga
    THEN g_atual.pgmin
    ELSE carga - soma_pgmax

\* a variant that adds the cheaper candidate instead of replacing the last
\* generator by it
refinar_insere(ligados, prioridade_t, geradores, carga, demanda) ==
    IF ligados = <<>> THEN ligados
    ELSE LET g_atual_id == ligados[Len(ligados)]
             g_atual    == mapa_gerador(geradores, g_atual_id)
             anteriores == SubSeq(ligados, 1, Len(ligados) - 1)
             soma_pgmin == soma_pgmin_de(geradores, anteriores)
             soma_pgmax == soma_pgmax_de(geradores, anteriores)
             geracao    == geracao_estimada(g_atual, soma_pgmax, carga)
             melhor     == refinar_loop(geradores, prioridade_t, Range(ligados), carga,
                                        demanda, soma_pgmin, soma_pgmax, geracao, 1,
                                        [id |-> g_atual_id, custo |-> custo(g_atual, geracao)])
         IN IF melhor.id # g_atual_id
            THEN Append(ligados, melhor.id)
            ELSE ligados

\* refinar, lines 184-255
refinar(ligados, prioridade_t, geradores, carga, demanda) ==
    IF ligados = <<>> THEN ligados
    ELSE LET g_atual_id == ligados[Len(ligados)]
             g_atual    == mapa_gerador(geradores, g_atual_id)
             anteriores == SubSeq(ligados, 1, Len(ligados) - 1)
             soma_pgmin == soma_pgmin_de(geradores, anteriores)
             soma_pgmax == soma_pgmax_de(geradores, anteriores)
             geracao    == geracao_estimada(g_atual, soma_pgmax, carga)
             melhor     == refinar_loop(geradores, prioridade_t, Range(ligados), carga,
                                        demanda, soma_pgmin, soma_pgmax, geracao, 1,
                                        [id |-> g_atual_id, custo |-> custo(g_atual, geracao)])
         IN IF melhor.id # g_atual_id
            THEN [ligados EXCEPT ![Len(ligados)] = melhor.id]
            ELSE ligados

\* on_off_refinado, lines 118-127: as on_off_loop, with refinar applied to the
\* list at the first position where the test holds
RECURSIVE on_off_refinado_loop(_, _, _, _, _, _, _, _)
on_off_refinado_loop(geradores, prioridade_t, carga, demanda, i, soma_pgmin, soma_pgmax, ligados) ==
    IF i > Len(prioridade_t) THEN ligados
    ELSE LET g     == mapa_gerador(geradores, prioridade_t[i])
             gmin  == soma_pgmin + g.pgmin
             gmax  == soma_pgmax + g.pgmax
             lig   == Append(ligados, prioridade_t[i])
         IN IF viavel(gmin, gmax, carga, demanda)
            THEN refinar(lig, prioridade_t, geradores, carga, demanda)
            ELSE on_off_refinado_loop(geradores, prioridade_t, carga, demanda, i + 1,
                                      gmin, gmax, lig)

\* on_off_refinado, lines 106-132: `resultados`
on_off_refinado_resultados(geradores, prioridade, cs) ==
    [t \in 1..Len(cs) |->
        [hora    |-> cs[t].hora,
         ligados |-> on_off_refinado_loop(geradores, prioridade, cs[t].carga,
                                          cs[t].carga + cs[t].reserva, 1, 0, 0, <<>>)]]

\* a decoder that reads every period from the first row of the frame
gerar_z_fixo_primeira_linha(df_status) ==
    LET usinas   == IF df_status = << >> THEN {} ELSE DOMAIN df_status[1] \ {"hora"}
        periodos == { i - 1 : i \in DOMAIN df_status }
    IN [k \in usinas \X periodos |-> df_status[1][k[1]]]

\* gerar_z_fixo, lines 156-163: keys (g, t) for every column g other than
\* 'hora' and every index label t of the frame (0 .. n-1), value df.loc[t, g]
gerar_z_fixo(df_status) ==
    LET usinas   == IF df_status = <<>> THEN {} ELSE DOMAIN df_status[1] \ {"hora"}
        periodos == { i - 1 : i \in DOMAIN df_status }
    IN [k \in usinas \X periodos |-> df_status[k[2] + 1][k[1]]]

----------------------------------------------------------------------------
(* heuristicas/forca_bruta.py *)

\* usinas = [g["id"] for g in geradores]
ids_de(geradores) == [i \in DOMAIN geradores |-> geradores[i].id]

\* itertools.combinations(usinas, k): the k-element sub-sequences of `usinas`,
\* in lexicographic order of their positions
RECURSIVE combinations(_, _)
combinations(usinas, k) ==
    IF k = 0 THEN << <<>> >>
    ELSE IF Len(usinas) < k THEN << >>
    ELSE LET com == combinations(Tail(usinas), k - 1)
         IN [i \in 1..Len(com) |-> <<Head(usinas)>> \o com[i]]
            \o combinations(Tail(usinas), k)

\* comb_viaveis' filter with the pgmin bound made strict
comb_viaveis_k_estrito(geradores, usinas, c, k) ==
    LET Passa(subset) ==
            /\ soma_pgmin_de(geradores, subset) < c.carga
            /\ soma_pgmax_de(geradores, subset) >= c.carga + c.reserva
        sel == SelectSeq(combinations(usinas, k), Passa)
    IN [i \in 1..Len(sel) |-> Range(sel[i])]

\* comb_viaveis, lines 55-60: the subsets of size k kept for the load record c
comb_viaveis_k(geradores, usinas, c, k) ==
    LET Passa(subset) ==
            /\ soma_pgmin_de(geradores, subset) <= c.carga
            /\ soma_pgmax_de(geradores, subset) >= c.carga + c.reserva
        sel == SelectSeq(combinations(usinas, k), Passa)
    IN [i \in 1..Len(sel) |-> Range(sel[i])]

\* comb_viaveis, line 54: for k in range(1, len(usinas) + 1), from k on
RECURSIVE comb_viaveis_de(_, _, _, _)
comb_viaveis_de(geradores, usinas, c, k) ==
    IF k > Len(usinas) THEN << >>
    ELSE comb_viaveis_k(geradores, usinas, c, k)
         \o comb_viaveis_de(geradores, usinas, c, k + 1)

\* comb_viaveis, lines 27-63: {t: candidatos}, t = 0 .. len(cargas) - 1
comb_viaveis(geradores, cs) ==
    [t \in 0..(Len(cs) - 1) |-> comb_viaveis_de(geradores, ids_de(geradores), cs[t + 1], 1)]

\* z_bruto_completo, lines 66-96: per period, one z_fixo per feasible subset,
\* with a key (g, t) for every generator of some feasible subset of any period
z_bruto_completo(comb) ==
    LET usinas == UNION { UNION Range(comb[t]) : t \in DOMAIN comb }
    IN [t \in DOMAIN comb |->
           LET candidatos == comb[t]
           IN [j \in 1..Len(candidatos) |->
                  LET subset == candidatos[j]
                  IN [k \in usinas \X {t} |-> IF k[1] \in subset THEN 1 ELSE 0]]]

\* a variant that also replaces the kept entry on an equal objective
RECURSIVE melhores_por_t_ultimo(_, _, _)
melhores_por_t_ultimo(resultados, i, acc) ==
    IF i > Len(resultados) THEN acc
    ELSE LET t   == resultados[i][1]
             j   == resultados[i][2]
             fob == resultados[i][3]
         IN IF t \notin DOMAIN acc \/ fob <= acc[t][2]
            THEN melhores_por_t_ultimo(resultados, i + 1,
                                [u \in DOMAIN acc \cup {t} |-> IF u = t THEN <<j, fob>> ELSE acc[u]])
            ELSE melhores_por_t_ultimo(resultados, i + 1, acc)

\* melhor_fob_h, lines 115-120: melhores_por_t after the entries i.. of
\* `resultados`; an entry replaces the kept one only when strictly smaller
RECURSIVE melhores_por_t(_, _, _)
melhores_por_t(resultados, i, acc) ==
    IF i > Len(resultados) THEN acc
    ELSE LET t   == resultados[i][1]
             j   == resultados[i][2]
             fob == resultados[i][3]
         IN IF t \notin DOMAIN acc \/ fob < acc[t][2]
            THEN melhores_por_t(resultados, i + 1,
                                [u \in DOMAIN acc \cup {t} |-> IF u = t THEN <<j, fob>> ELSE acc[u]])
            ELSE melhores_por_t(resultados, i + 1, acc)

\* sorted(...): the elements of a set of integers in increasing order
RECURSIVE sorted(_)
sorted(S) ==
    IF S = {} THEN << >>
    ELSE LET m == CHOOSE x \in S : \A y \in S : x <= y
         IN <<m>> \o sorted(S \ {m})

\* melhor_fob_h, lines 98-133: the rows of the returned frame, one per period
\* that has an entry in `resultados` (j counts from 0)
melhor_fob_h(resultados, zb, ute) ==
    LET melhores == melhores_por_t(resultados, 1, << >>)
        ts       == sorted(DOMAIN melhores)
    IN [i \in 1..Len(ts) |->
           LET t      == ts[i]
               z_fixo == zb[t][melhores[t][1] + 1]
           IN [col \in {"hora", "FOB"} \cup Range(ute) |->
                  IF col = "hora" THEN t
                  ELSE IF col = "FOB" THEN melhores[t][2]
                  ELSE IF <<col, t>> \in DOMAIN z_fixo THEN z_fixo[<<col, t>>] ELSE 0]]

----------------------------------------------------------------------------
(* model_nlp/despacho_nlp.py, as used by the drivers: a fixed-commitment    *)
(* solve of the periods `periodos` under z_fixo, and what is read from it.  *)

\* get_resultados, line 453: status = self.z_fixo[(g, t)] for every g, t
z_fixo_completo(ute, periodos, z_fixo) ==
    \A g \in Range(ute), t \in periodos : <<g, t>> \in DOMAIN z_fixo

RECURSIVE soma_z(_, _, _, _, _)
soma_z(geradores, z_fixo, t, campo, i) ==
    IF i > Len(geradores) THEN 0
    ELSE geradores[i][campo] * z_fixo[<<geradores[i].id, t>>]
         + soma_z(geradores, z_fixo, t, campo, i + 1)

\* _restr_sup, _restr_inf, _restr_demanda, _restr_reserva: period t has a
\* dispatch P with pmin*z <= P <= pmax*z, sum(P*z) = demanda and
\* sum(pmax*z) >= demanda + reserva
despachavel(geradores, z_fixo, t, cs) ==
    /\ soma_z(geradores, z_fixo, t, "pgmin", 1) <= cs[t + 1].carga
    /\ soma_z(geradores, z_fixo, t, "pgmax", 1) >= cs[t + 1].carga
    /\ soma_z(geradores, z_fixo, t, "pgmax", 1) >= cs[t + 1].carga + cs[t + 1].reserva

\* _termo_a at the optimum of period t, for generators with b = 1 and c = 0:
\* sum(a*z) + sum(b*P) = sum(a*z) + demanda
fob_otimo(geradores, z_fixo, t, cs) ==
    soma_z(geradores, z_fixo, t, "a", 1) + cs[t + 1].carga

\* get_custos_tempo, lines 475-482, for generators with b = 1 and c = 0, when
\* the values left in P for period t add up to p
custo_residual(geradores, z_fixo, t, p) ==
    soma_z(geradores, z_fixo, t, "a", 1) + p

\* forca_bruta, lines 176-181: the entries (t, j, fob) of period t, j from 0
pesquisa_de(geradores, cs, zb, t) ==
    LET z_t == zb[t]
    IN [j \in 1..Len(z_t) |-> <<t, j - 1, fob_otimo(geradores, z_t[j], t, cs)>>]

RECURSIVE pesquisa_desde(_, _, _, _)
pesquisa_desde(geradores, cs, zb, t) ==
    IF t \notin DOMAIN zb THEN << >>
    ELSE pesquisa_de(geradores, cs, zb, t) \o pesquisa_desde(geradores, cs, zb, t + 1)

----------------------------------------------------------------------------
(* The selector run by a heuristic driver: on_off, then on_off_refinado on   *)
(* the same generators, order and loads (main.py: indicador_x, indic_x_ref). *)

Nenhum == "None"

\* DespachoNLP.__init__, lines 40 and 52: no model, fixed-commitment mode
InitDespachoNLP ==
    /\ model = Nenhum /\ _usar_odf = FALSE
    /\ ativas = {} /\ x_bounds = << >> /\ obj = Nenhum
    /\ valores = Nenhum /\ dual = {}
    /\ status = Nenhum /\ modo_solve = Nenhum
    /\ retorno = Nenhum /\ chamadas = << >>

\* no run of tabela_relevancia
InitSemITR ==
    /\ ordens = Nenhum /\ n_iter = 0 /\ sorteios = << >>
    /\ rodada = 0 /\ relevancia = Nenhum /\ ordem_final = << >>
    /\ resultado = Nenhum

\* the fleets: every generator draws its limits, the three generators share
\* out the three cost curves
Geradores ==
    { [i \in DOMAIN Ids |->
          [id |-> Ids[i], pgmin |-> lim[i][1], pgmax |-> lim[i][2],
           a |-> cur[i][1], b |-> cur[i][2], c |-> cur[i][3]]] :
        lim \in [DOMAIN Ids -> { l \in (1..MaxPg) \X (1..MaxPg) : l[1] <= l[2] }],
        cur \in Perms(Curvas) }

\* the loads of n periods, hours numbered from h0 on
Cargas(n, h0) ==
    { [t \in 1..n |-> [hora |-> h0 + t - 1, carga |-> c[t][1], reserva |-> c[t][2]]] :
        c \in [1..n -> (1..MaxCarga) \X (0..MaxRes)] }

InitSel ==
    /\ pc = "inicio"
    /\ dger \in Geradores
    /\ cargas \in Cargas(1, 1)
    /\ prioridades \in Perms(IdSet)
    /\ ligados_g = Nenhum /\ df_on_off = Nenhum
    /\ ligados_r = Nenhum /\ df_refinado = Nenhum
    /\ z_h = Nenhum /\ custo_h = Nenhum /\ status_h = Nenhum
    /\ combinacoes = Nenhum /\ z_bruto = Nenhum /\ pesquisa = Nenhum /\ df_fob = Nenhum
    /\ erro = Nenhum
    /\ InitDespachoNLP
    /\ InitSemITR

OnOff ==
    /\ pc = "inicio"
    /\ LET res == on_off_resultados(dger, prioridades, cargas)
       IN /\ ligados_g' = [t \in DOMAIN res |-> res[t].ligados]
          /\ df_on_off' = status_frame(dger, res)
    /\ pc' = "on_off"
    /\ UNCHANGED <<dger, cargas, prioridades, ligados_r, df_refinado, heuVars, fbVars, erro, extras>>

OnOffRefinado ==
    /\ pc = "on_off"
    /\ LET res == on_off_refinado_resultados(dger, prioridades, cargas)
       IN /\ ligados_r' = [t \in DOMAIN res |-> res[t].ligados]
          /\ df_refinado' = status_frame(dger, res)
    /\ pc' = "refinado"
    /\ UNCHANGED <<dger, cargas, prioridades, ligados_g, df_on_off, heuVars, fbVars, erro, extras>>

\* forca_bruta, line 170: the enumeration of the feasible subsets
CombViaveis ==
    /\ pc = "refinado"
    /\ combinacoes' = comb_viaveis(dger, cargas)
    /\ pc' = "combinado"
    /\ UNCHANGED <<dger, cargas, prioridades, selVars, heuVars, z_bruto, pesquisa, df_fob, erro, extras>>

NextSel == OnOff \/ OnOffRefinado \/ CombViaveis

SpecSel == InitSel /\ [][NextSel]_vars

----------------------------------------------------------------------------
(* main.py: a heuristic driver (indicador_x), then forca_bruta, on the same *)
(* generators and loads.                                                    *)

IdsFB == <<"G1", "G2">>

\* fixed cost `a` a generator of this fleet may have; b = 1 and c = 0
CustosFixos == {0, 1}

GeradoresFB ==
    { [i \in DOMAIN IdsFB |->
          [id |-> IdsFB[i], pgmin |-> lim[i][1], pgmax |-> lim[i][2],
           a |-> fx[i], b |-> 1, c |-> 0]] :
        lim \in [DOMAIN IdsFB -> { l \in (1..MaxPg) \X (1..MaxPg) : l[1] <= l[2] }],
        fx \in [DOMAIN IdsFB -> CustosFixos] }

\* total power found in P for a period after a solve that did not end optimal
Residuos == {0, 1}

InitFB ==
    /\ pc = "inicio"
    /\ dger \in GeradoresFB
    /\ cargas \in Cargas(2, 1)
    /\ prioridades = Nenhum
    /\ ligados_g = Nenhum /\ df_on_off = Nenhum
    /\ ligados_r = Nenhum /\ df_refinado = Nenhum
    /\ z_h = Nenhum /\ custo_h = Nenhum /\ status_h = Nenhum
    /\ combinacoes = Nenhum /\ z_bruto = Nenhum /\ pesquisa = Nenhum /\ df_fob = Nenhum
    /\ erro = Nenhum
    /\ InitDespachoNLP
    /\ InitSemITR

\* indicador_x: a priority order, on_off, gerar_z_fixo, DespachoNLP.solve over
\* all periods, get_custos_tempo
Indicador ==
    /\ pc = "inicio"
    /\ \E ordem \in Perms(Range(ids_de(dger))) :
         LET res == on_off_resultados(dger, ordem, cargas)
             df  == status_frame(dger, res)
             z   == gerar_z_fixo(df)
             periodos == 0..(Len(cargas) - 1)
             otimo == \A t \in periodos : despachavel(dger, z, t, cargas)
         IN /\ prioridades' = ordem
            /\ ligados_g' = [t \in DOMAIN res |-> res[t].ligados]
            /\ df_on_off' = df
            /\ z_h' = z
            /\ status_h' = IF otimo THEN "optimal" ELSE "infeasible"
            /\ IF otimo
               THEN custo_h' = [t \in periodos |-> fob_otimo(dger, z, t, cargas)]
               ELSE \E r \in [periodos -> Residuos] :
                        custo_h' = [t \in periodos |-> custo_residual(dger, z, t, r[t])]
    /\ pc' = "heuristica"
    /\ UNCHANGED <<dger, cargas, ligados_r, df_refinado, fbVars, erro, extras>>

\* forca_bruta, lines 135-190
ForcaBruta ==
    /\ pc = "heuristica"
    /\ combinacoes' = comb_viaveis(dger, cargas)
    /\ z_bruto' = z_bruto_completo(combinacoes')
    /\ LET ute  == ids_de(dger)
           zb   == z_bruto'
           falha == \E t \in DOMAIN zb : \E j \in DOMAIN zb[t] :
                        ~z_fixo_completo(ute, {t}, zb[t][j])
           pesq == pesquisa_desde(dger, cargas, zb, 0)
           linhas == melhor_fob_h(pesq, zb, ute)
       IN IF falha
             THEN pesquisa' = << >> /\ df_fob' = Nenhum /\ erro' = "z_fixo"
             ELSE /\ pesquisa' = pesq
                  /\ IF linhas = << >>
                     THEN df_fob' = Nenhum /\ erro' = "KeyError"
                     ELSE df_fob' = linhas /\ erro' = Nenhum
    /\ pc' = "fim"
    /\ UNCHANGED <<dger, cargas, prioridades, selVars, heuVars, extras>>

NextFB == Indicador \/ ForcaBruta

SpecFB == InitFB /\ [][NextFB]_vars

----------------------------------------------------------------------------
(* model_nlp/despacho_nlp.py: one DespachoNLP object and the calls a client *)
(* may make on it, in any order.                                            *)

restr_padrao == {"restr_sup", "restr_inf", "restr_demanda", "restr_reserva"}
restr_odf == {"restr_sup_odf", "restr_inf_odf", "restr_demanda_odf", "restr_reserva_odf"}
restr_x == {"x_lb", "x_ub"}
restr_pc == {"restr_pc_sup", "restr_pc_inf"}

\* construir_modelo, lines 78-98: every constraint component is created
\* active and the four *_odf components are then deactivated
ativas_construido == (restr_padrao \cup restr_odf \cup restr_x \cup restr_pc) \ restr_odf

\* construir_modelo, line 71: x = Var(m.G, m.T, bounds=(0, 1), initialize=0)
x_bounds_construido == <<"0", "1">>

\* _construir_objetivo, lines 408-417
_construir_objetivo(odf) == IF odf THEN "termo_a_odf + termo_d" ELSE "termo_a"

\* usar_odf, lines 133-144 and 154-165: activate, deactivate
usar_odf_ativas(at, ativar) ==
    IF ativar THEN ((at \cup restr_odf) \cup restr_x) \ restr_padrao
    ELSE ((at \cup restr_padrao) \ restr_odf) \ restr_x

\* usar_odf, lines 149-150 and 170-171: setlb, setub
usar_odf_bounds(ativar) == IF ativar THEN <<"0.0", "1e-4">> ELSE <<Nenhum, Nenhum>>

\* the last two calls, after the call `nome`
registra(nome) ==
    IF Len(chamadas) < 2 THEN Append(chamadas, nome) ELSE <<chamadas[2], nome>>

nomeUsarOdf(ativar) == IF ativar THEN "usar_odf(True)" ELSE "usar_odf(False)"

outras == <<pc, dger, cargas, prioridades, selVars, heuVars, fbVars, erro, itrVars, resultado>>

construir_modelo ==
    /\ pc = "nlp"
    /\ model' = "ConcreteModel"
    /\ ativas' = ativas_construido
    /\ x_bounds' = x_bounds_construido
    /\ obj' = _construir_objetivo(_usar_odf)
    /\ valores' = Nenhum
    /\ dual' = {}
    /\ status' = Nenhum /\ modo_solve' = Nenhum
    /\ retorno' = Nenhum
    /\ chamadas' = registra("construir_modelo")
    /\ UNCHANGED <<_usar_odf, outras>>

\* usar_odf, lines 103-171; without a model, m is None and the first use of m
\* (m.x[g, t] or m.restr_sup) raises after self._usar_odf was assigned
usar_odf(ativar) ==
    /\ pc = "nlp"
    /\ _usar_odf' = ativar
    /\ chamadas' = registra(nomeUsarOdf(ativar))
    /\ IF model = Nenhum
       THEN /\ retorno' = IF ativar THEN "TypeError" ELSE "AttributeError"
            /\ UNCHANGED <<model, ativas, x_bounds, obj, valores, dual, status, modo_solve>>
       ELSE /\ ativas' = usar_odf_ativas(ativas, ativar)
            /\ x_bounds' = usar_odf_bounds(ativar)
            /\ valores' = IF ativar THEN "inicial" ELSE valores
            /\ retorno' = Nenhum
            /\ UNCHANGED <<model, obj, dual, status, modo_solve>>
    /\ UNCHANGED outras

\* solve, lines 419-433: builds the model when there is none; the solver's
\* termination depends on the data; its solution is loaded either way, the
\* duals being those of the active constraints
solve ==
    /\ pc = "nlp"
    /\ LET novo == model = Nenhum
           at   == IF novo THEN ativas_construido ELSE ativas
       IN /\ model' = "ConcreteModel"
          /\ ativas' = at
          /\ x_bounds' = IF novo THEN x_bounds_construido ELSE x_bounds
          /\ obj' = IF novo THEN _construir_objetivo(_usar_odf) ELSE obj
          /\ dual' = at
    /\ status' \in {"optimal", "infeasible"}
    /\ valores' = "solver"
    /\ modo_solve' = IF _usar_odf THEN "odf" ELSE "fixo"
    /\ retorno' = status'
    /\ chamadas' = registra("solve")
    /\ UNCHANGED <<_usar_odf, outras>>

\* what a reader of P returns: get_resultados, lines 445-462, and
\* get_custos_tempo, lines 472-483
le_valores(rotulo) ==
    IF model = Nenhum THEN "RuntimeError"
    ELSE IF valores = Nenhum THEN "ValueError"
    ELSE rotulo

get_resultados ==
    /\ pc = "nlp"
    /\ retorno' = le_valores("resultados")
    /\ chamadas' = registra("get_resultados")
    /\ UNCHANGED <<model, _usar_odf, ativas, x_bounds, obj, valores, dual, status, modo_solve, outras>>

get_custos_tempo ==
    /\ pc = "nlp"
    /\ retorno' = le_valores("custos")
    /\ chamadas' = registra("get_custos_tempo")
    /\ UNCHANGED <<model, _usar_odf, ativas, x_bounds, obj, valores, dual, status, modo_solve, outras>>

\* get_lagrangianos, lines 495-509: m.dual[m.x_ub[g, t]]
get_lagrangianos ==
    /\ pc = "nlp"
    /\ retorno' = IF model = Nenhum THEN "RuntimeError"
                  ELSE IF "x_ub" \in dual THEN "lambdas"
                  ELSE "KeyError"
    /\ chamadas' = registra("get_lagrangianos")
    /\ UNCHANGED <<model, _usar_odf, ativas, x_bounds, obj, valores, dual, status, modo_solve, outras>>

InitNLP ==
    /\ pc = "nlp"
    /\ dger = Nenhum /\ cargas = Nenhum /\ prioridades = Nenhum
    /\ ligados_g = Nenhum /\ df_on_off = Nenhum
    /\ ligados_r = Nenhum /\ df_refinado = Nenhum
    /\ z_h = Nenhum /\ custo_h = Nenhum /\ status_h = Nenhum
    /\ combinacoes = Nenhum /\ z_bruto = Nenhum /\ pesquisa = Nenhum /\ df_fob = Nenhum
    /\ erro = Nenhum
    /\ InitDespachoNLP
    /\ InitSemITR

NextNLP ==
    \/ construir_modelo
    \/ \E ativar \in BOOLEAN : usar_odf(ativar)
    \/ solve
    \/ get_resultados
    \/ get_custos_tempo
    \/ get_lagrangianos

SpecNLP == InitNLP /\ [][NextNLP]_vars

----------------------------------------------------------------------------
(* The priority strategies, in the order main.py runs the drivers that call *)
(* them: priorizar_isa, priorizar_isb, priorizar_isc, priorizar_isd, is_g,  *)
(* lagrangianos. A score is a fraction <<numerator, denominator>>.          *)

\* x < y for fractions with positive denominators
menor(x, y) == x[1] * y[2] < y[1] * x[2]

\* sorted(..., key=...) with equal keys placed first-come-last
RECURSIVE insere_por_chave_instavel(_, _, _)
insere_por_chave_instavel(lista, g, chave) ==
    IF lista = << >> THEN <<g>>
    ELSE IF ~menor(chave[lista[1]], chave[g]) THEN <<g>> \o lista
    ELSE <<lista[1]>> \o insere_por_chave_instavel(Tail(lista), g, chave)

\* sorted(..., key=...): g goes after every element whose key is <= its own
RECURSIVE insere_por_chave(_, _, _)
insere_por_chave(lista, g, chave) ==
    IF lista = << >> THEN <<g>>
    ELSE IF menor(chave[g], chave[lista[1]]) THEN <<g>> \o lista
    ELSE <<lista[1]>> \o insere_por_chave(Tail(lista), g, chave)

\* sorted(usinas, key=chave), for the first i elements of `usinas`
RECURSIVE sorted_por_chave(_, _, _)
sorted_por_chave(usinas, chave, i) ==
    IF i = 0 THEN << >>
    ELSE insere_por_chave(sorted_por_chave(usinas, chave, i - 1), usinas[i], chave)

\* sorted(..., key=..., reverse=True): the order of equal keys is kept
RECURSIVE insere_reverso(_, _, _)
insere_reverso(lista, g, chave) ==
    IF lista = << >> THEN <<g>>
    ELSE IF menor(chave[lista[1]], chave[g]) THEN <<g>> \o lista
    ELSE <<lista[1]>> \o insere_reverso(Tail(lista), g, chave)

RECURSIVE sorted_reverso(_, _, _)
sorted_reverso(usinas, chave, i) ==
    IF i = 0 THEN << >>
    ELSE insere_reverso(sorted_reverso(usinas, chave, i - 1), usinas[i], chave)

\* avg_full_load_cost.py, is_a, line 47: (a + b*pg + c*pg**2) / pg
is_a(a, b, c, pg) == <<a + b * pg + c * pg * pg, pg>>

\* marg_cost_avg_power.py, is_b at pg = (pgmin + pgmax) / 2, lines 46 and 62
is_b_medio(b, c, pgmin, pgmax) == <<b + c * (pgmin + pgmax), 1>>

\* marg_cost_full_load.py, line 67: cp = (hot + cold) / 2
custo_partida(hot, cold) == <<hot + cold, 2>>

\* marg_cost_full_load.py, is_c, line 50: b + 2*c*pg + cp / (tmp*pg)
is_c(b, c, pg, cp, tmp) ==
    <<(b + 2 * c * pg) * (cp[2] * tmp * pg) + cp[1], cp[2] * tmp * pg>>

\* avg_cost_opt_point.py, is_d, line 48
is_d(a, b, c, pg) == <<a + b * pg + c * pg * pg, pg>>

\* a variant that also resets the quadratic coefficient of the record
com_campo_zera_c(ger, campo, valor) ==
    [k \in DOMAIN ger \cup {campo} |->
        IF k = campo THEN valor ELSE IF k = "c" THEN 0 ELSE ger[k]]

\* a record with one more field
com_campo(ger, campo, valor) ==
    [k \in DOMAIN ger \cup {campo} |-> IF k = campo THEN valor ELSE ger[k]]

\* the scores a strategy attached to the records, by generator id
chave_de(geradores, campo) ==
    [g \in Range(ids_de(geradores)) |-> mapa_gerador(geradores, g)[campo]]

\* multi_gen_cost_penalty.py, is_g, lines 48-57: the estimated cost of one
\* generator for one load record
fob_isg(g, carga) ==
    LET demanda == carga.carga + carga.reserva
    IN IF g.pgmax >= demanda
       THEN g.a + g.b * demanda + g.c * demanda * demanda
       ELSE IF g.pgmax < demanda /\ g.pgmin <= carga.carga
       THEN g.a + g.b * g.pgmax + g.c * g.pgmax * g.pgmax + (demanda - g.pgmax) * 1000
       ELSE demanda * 1000

\* a variant without the fallback to pgmin
pg_isd_sem_fallback(ger, pg) == pg

\* avg_cost_opt_point.py, priorizar_isd, lines 78-79: the generation at
\* which is_d is evaluated
pg_isd(ger, pg) == IF pg > 0 THEN pg ELSE ger.pgmin

\* limits, cost curves and start-up data (hot, cold, mtu) of the fleets
LimitesPri == { <<0, 1>>, <<1, 1>>, <<1, 2>> }
PartidasPri == { [i \in DOMAIN Ids |-> <<0, 0, 1>>], <<<<2, 4, 1>>, <<0, 0, 1>>, <<4, 4, 2>>>> }

GeradoresPri ==
    { [i \in DOMAIN Ids |->
          [id |-> Ids[i], pgmin |-> lim[i][1], pgmax |-> lim[i][2],
           a |-> cur[i][1], b |-> cur[i][2], c |-> cur[i][3],
           hot |-> par[i][1], cold |-> par[i][2], mtu |-> par[i][3]]] :
        lim \in [DOMAIN Ids -> LimitesPri], cur \in Perms(Curvas), par \in PartidasPri }

\* generation the solver may report for one generator in one period
PgOtimos == {0, 1}

\* multiplier the solver may report for one x_ub[g, t]
Multiplicadores == {-1, 0, 1}

foraPri == <<cargas, prioridades, selVars, heuVars, fbVars, erro, nlpVars, itrVars>>

InitPri ==
    /\ pc = "pri_isa"
    /\ dger \in GeradoresPri
    /\ cargas \in Cargas(1, 1)
    /\ prioridades = Nenhum
    /\ ligados_g = Nenhum /\ df_on_off = Nenhum
    /\ ligados_r = Nenhum /\ df_refinado = Nenhum
    /\ z_h = Nenhum /\ custo_h = Nenhum /\ status_h = Nenhum
    /\ combinacoes = Nenhum /\ z_bruto = Nenhum /\ pesquisa = Nenhum /\ df_fob = Nenhum
    /\ erro = Nenhum
    /\ InitDespachoNLP
    /\ InitSemITR

\* avg_full_load_cost.py, priorizar_isa, lines 50-66
priorizar_isa ==
    /\ pc = "pri_isa"
    /\ dger' = [i \in DOMAIN dger |->
                  com_campo(dger[i], "isa", is_a(dger[i].a, dger[i].b, dger[i].c, dger[i].pgmax))]
    /\ resultado' = [estrategia |-> "isa", leitura |-> Nenhum,
                     retorno |-> sorted_por_chave(ids_de(dger'), chave_de(dger', "isa"), Len(dger'))]
    /\ pc' = "pri_isb"
    /\ UNCHANGED foraPri

\* marg_cost_avg_power.py, priorizar_isb, lines 48-64
priorizar_isb ==
    /\ pc = "pri_isb"
    /\ dger' = [i \in DOMAIN dger |->
                  com_campo(dger[i], "isb", is_b_medio(dger[i].b, dger[i].c, dger[i].pgmin, dger[i].pgmax))]
    /\ resultado' = [estrategia |-> "isb", leitura |-> Nenhum,
                     retorno |-> sorted_por_chave(ids_de(dger'), chave_de(dger', "isb"), Len(dger'))]
    /\ pc' = "pri_isc"
    /\ UNCHANGED foraPri

\* marg_cost_full_load.py, priorizar_isc, lines 52-70
priorizar_isc ==
    /\ pc = "pri_isc"
    /\ dger' = [i \in DOMAIN dger |->
                  LET cp == custo_partida(dger[i].hot, dger[i].cold)
                  IN com_campo(com_campo(dger[i], "cp", cp), "isc",
                               is_c(dger[i].b, dger[i].c, dger[i].pgmax, cp, dger[i].mtu))]
    /\ resultado' = [estrategia |-> "isc", leitura |-> Nenhum,
                     retorno |-> sorted_por_chave(ids_de(dger'), chave_de(dger', "isc"), Len(dger'))]
    /\ pc' = "pri_isd"
    /\ UNCHANGED foraPri

\* avg_cost_opt_point.py, priorizar_isd, lines 50-83, on the pg_otimo that
\* gerar_pg_otimo read from the solver
priorizar_isd ==
    /\ pc = "pri_isd"
    /\ \E pg_otimo \in [Range(ids_de(dger)) -> [0..(Len(cargas) - 1) -> PgOtimos]] :
         LET divide_por_zero ==
                 \E i \in DOMAIN dger, t \in 0..(Len(cargas) - 1) :
                     pg_isd(dger[i], pg_otimo[dger[i].id][t]) = 0
             isd_t(t) == [g \in Range(ids_de(dger)) |->
                             LET ger == mapa_gerador(dger, g)
                             IN is_d(ger.a, ger.b, ger.c, pg_isd(ger, pg_otimo[g][t]))]
         IN IF divide_por_zero
            THEN /\ resultado' = [estrategia |-> "isd", leitura |-> pg_otimo,
                                  retorno |-> "ZeroDivisionError"]
                 /\ pc' = "pri_erro"
            ELSE /\ resultado' = [estrategia |-> "isd", leitura |-> pg_otimo,
                                  retorno |-> [t \in 0..(Len(cargas) - 1) |->
                                      sorted_por_chave(ids_de(dger), isd_t(t), Len(dger))]]
                 /\ pc' = "pri_isg"
    /\ UNCHANGED <<dger, foraPri>>

\* multi_gen_cost_penalty.py, is_g, lines 27-75
is_g ==
    /\ pc = "pri_isg"
    /\ resultado' = [estrategia |-> "isg", leitura |-> Nenhum,
                     retorno |-> [t \in 0..(Len(cargas) - 1) |->
                         sorted_por_chave(ids_de(dger),
                             [g \in Range(ids_de(dger)) |-> <<fob_isg(mapa_gerador(dger, g), cargas[t + 1]), 1>>],
                             Len(dger))]]
    /\ pc' = "pri_ils"
    /\ UNCHANGED <<dger, foraPri>>

\* heuristic_lagrange.py, lagrangianos, lines 27-90, on the multipliers
\* get_lagrangianos returned for each period
lagrangianos ==
    /\ pc = "pri_ils"
    /\ \E lambdas \in [Range(ids_de(dger)) \X (0..(Len(cargas) - 1)) -> Multiplicadores] :
         resultado' = [estrategia |-> "ils", leitura |-> lambdas,
                       retorno |-> [t \in 0..(Len(cargas) - 1) |->
                           sorted_reverso(ids_de(dger),
                               [g \in Range(ids_de(dger)) |-> <<lambdas[<<g, t>>], 1>>],
                               Len(dger))]]
    /\ pc' = "pri_fim"
    /\ UNCHANGED <<dger, foraPri>>

\* the order of each period that the caller holds after the last strategy
ordem_do_chamador(t) == resultado.retorno[t - 1]

\* utils.py, on_off, lines 39-69, called with the per-period orders (the
\* dict branch of lines 50-51) on the records the strategies annotated
on_off_por_periodo ==
    /\ pc = "pri_fim"
    /\ LET res == [t \in 1..Len(cargas) |->
                     on_off_resultados(dger, ordem_do_chamador(t), <<cargas[t]>>)[1]]
       IN /\ ligados_g' = [t \in DOMAIN res |-> res[t].ligados]
          /\ df_on_off' = status_frame(dger, res)
    /\ pc' = "pri_on_off"
    /\ UNCHANGED <<dger, cargas, prioridades, ligados_r, df_refinado, heuVars, fbVars, erro, extras>>

\* utils.py, on_off_refinado, lines 103-132, with the per-period orders
on_off_refinado_por_periodo ==
    /\ pc = "pri_on_off"
    /\ LET res == [t \in 1..Len(cargas) |->
                     on_off_refinado_resultados(dger, ordem_do_chamador(t), <<cargas[t]>>)[1]]
       IN /\ ligados_r' = [t \in DOMAIN res |-> res[t].ligados]
          /\ df_refinado' = status_frame(dger, res)
    /\ pc' = "pri_refinado"
    /\ UNCHANGED <<dger, cargas, prioridades, ligados_g, df_on_off, heuVars, fbVars, erro, extras>>

\* forca_bruta.py, comb_viaveis, on the annotated records
comb_viaveis_anotados ==
    /\ pc = "pri_refinado"
    /\ combinacoes' = comb_viaveis(dger, cargas)
    /\ pc' = "pri_comb"
    /\ UNCHANGED <<dger, cargas, prioridades, selVars, heuVars, z_bruto, pesquisa, df_fob, erro, extras>>

NextPri ==
    \/ priorizar_isa
    \/ priorizar_isb
    \/ priorizar_isc
    \/ priorizar_isd
    \/ is_g
    \/ lagrangianos
    \/ on_off_por_periodo
    \/ on_off_refinado_por_periodo
    \/ comb_viaveis_anotados

SpecPri == InitPri /\ [][NextPri]_vars

----------------------------------------------------------------------------
(* heuristicas/relevance_dispatch.py: tabela_relevancia, run twice on the   *)
(* same inputs, the second run with the draws of the first.                 *)

Heuristicas == {"isa", "isb", "isc", "isd", "isg", "ils"}
Globais == {"isa", "isb", "isc"}

\* expandir_lista_global, line 45
expandir_lista_global(lista_fixa, periodos) == [t \in periodos |-> lista_fixa]

\* a variant that draws once per trial: every period takes the heuristic
\* drawn for the first one
ordem_randomica_um_sorteio(periodos, ords, sorteio) ==
    LET t0 == CHOOSE u \in periodos : \A v \in periodos : u <= v
    IN [t \in periodos |->
           IF sorteio[t0] \in Globais
           THEN expandir_lista_global(ords[sorteio[t0]], periodos)[t]
           ELSE ords[sorteio[t0]][t]]

\* ordem_randomica, lines 74-93: per period, the order of the drawn heuristic
ordem_randomica(periodos, ords, sorteio) ==
    [t \in periodos |->
        IF sorteio[t] \in Globais
        THEN expandir_lista_global(ords[sorteio[t]], periodos)[t]
        ELSE ords[sorteio[t]][t]]

\* a weight that does not depend on the position
peso_uniforme(pos) == 6 \div 1

\* line 129: the weight 1 / (1 + pos), in sixths
peso(pos) == 6 \div (1 + pos)

RECURSIVE pesos_de(_, _, _)
pesos_de(lista, gid, i) ==
    IF i > Len(lista) THEN 0
    ELSE (IF lista[i] = gid THEN peso(i - 1) ELSE 0) + pesos_de(lista, gid, i + 1)

\* lines 127-129: one iteration of the accumulation
acumula(rel, ordem_rand, periodos) ==
    [t \in periodos |->
        [g \in DOMAIN rel[t] \cup Range(ordem_rand[t]) |->
            (IF g \in DOMAIN rel[t] THEN rel[t][g] ELSE 0) + pesos_de(ordem_rand[t], g, 1)]]

\* lines 123-129: the table after the iterations i .. Len(sorts)
RECURSIVE relevancia_apos(_, _, _, _, _)
relevancia_apos(rel, periodos, ords, sorts, i) ==
    IF i > Len(sorts) THEN rel
    ELSE relevancia_apos(acumula(rel, ordem_randomica(periodos, ords, sorts[i]), periodos), periodos, ords, sorts, i + 1)

\* relevancia[t][g] of a defaultdict(float)
valor_rel(rel_t, g) == IF g \in DOMAIN rel_t THEN rel_t[g] ELSE 0

\* a sort that reverses the order of equal keys from the second run on
RECURSIVE insere_instavel(_, _, _)
insere_instavel(lista, g, rel_t) ==
    IF lista = << >> THEN <<g>>
    ELSE IF (rodada = 0 /\ valor_rel(rel_t, g) > valor_rel(rel_t, lista[1]))
            \/ (rodada > 0 /\ valor_rel(rel_t, g) >= valor_rel(rel_t, lista[1]))
         THEN <<g>> \o lista
         ELSE <<lista[1]>> \o insere_instavel(Tail(lista), g, rel_t)

\* sorted(..., key=lambda g: -relevancia[t][g]): g goes after every element
\* whose relevance is >= its own (stable)
RECURSIVE insere(_, _, _)
insere(lista, g, rel_t) ==
    IF lista = << >> THEN <<g>>
    ELSE IF valor_rel(rel_t, g) > valor_rel(rel_t, lista[1])
         THEN <<g>> \o lista
         ELSE <<lista[1]>> \o insere(Tail(lista), g, rel_t)

\* a variant that orders only the generators some draw gave a weight to
ordena_so_sorteados(todos_ids, rel_t, i) ==
    LET sorteado(g) == g \in DOMAIN rel_t
    IN SelectSeq(SubSeq(todos_ids, 1, i), sorteado)

\* line 133: sorted(todos_ids, key=lambda g: -relevancia[t][g])
RECURSIVE ordena_por_relevancia(_, _, _)
ordena_por_relevancia(todos_ids, rel_t, i) ==
    IF i = 0 THEN << >>
    ELSE insere(ordena_por_relevancia(todos_ids, rel_t, i - 1), todos_ids[i], rel_t)

\* the permutations the heuristics may hand over
OrdensITR == { <<"G1", "G2", "G3">>, <<"G2", "G1", "G3">>, <<"G3", "G2", "G1">> }

\* number of draws per period
Iteracoes == {1, 2}

PeriodosITR == {0}

InitITR ==
    /\ pc = "itr"
    /\ dger = Nenhum /\ cargas = Nenhum /\ prioridades = Nenhum
    /\ ligados_g = Nenhum /\ df_on_off = Nenhum
    /\ ligados_r = Nenhum /\ df_refinado = Nenhum
    /\ z_h = Nenhum /\ custo_h = Nenhum /\ status_h = Nenhum
    /\ combinacoes = Nenhum /\ z_bruto = Nenhum /\ pesquisa = Nenhum /\ df_fob = Nenhum
    /\ erro = Nenhum
    /\ InitDespachoNLP
    /\ \E g \in [Globais -> OrdensITR], p \in [Heuristicas \ Globais -> [PeriodosITR -> OrdensITR]] :
          ordens = [h \in Heuristicas |-> IF h \in Globais THEN g[h] ELSE p[h]]
    /\ n_iter \in Iteracoes
    /\ sorteios = << >>
    /\ rodada = 0 /\ relevancia = Nenhum /\ ordem_final = << >>
    /\ resultado = Nenhum

\* the periods the caller passes: the keys of the per-period orders
periodos_itr == DOMAIN ordens["isd"]

\* tabela_relevancia, lines 95-139; the first run draws, the second run is
\* given the same draws
TabelaRelevancia ==
    /\ pc = "itr"
    /\ rodada < 2
    /\ \E s \in [1..n_iter -> [periodos_itr -> Heuristicas]] :
          /\ rodada > 0 => s = sorteios
          /\ sorteios' = s
          /\ relevancia' = relevancia_apos([t \in periodos_itr |-> << >>], periodos_itr, ordens, s, 1)
    /\ ordem_final' = Append(ordem_final,
                             [t \in periodos_itr |-> ordena_por_relevancia(Ids, relevancia'[t], Len(Ids))])
    /\ rodada' = rodada + 1
    /\ UNCHANGED <<pc, dger, cargas, prioridades, selVars, heuVars, fbVars, erro, nlpVars, ordens, n_iter, resultado>>

NextITR == TabelaRelevancia

SpecITR == InitITR /\ [][NextITR]_vars

\* two periods: the global orders and two of the per-period ones are fixed,
\* the orders of isd vary with the period
PeriodosITR2 == {0, 1}

InitITR2 ==
    /\ pc = "itr"
    /\ dger = Nenhum /\ cargas = Nenhum /\ prioridades = Nenhum
    /\ ligados_g = Nenhum /\ df_on_off = Nenhum
    /\ ligados_r = Nenhum /\ df_refinado = Nenhum
    /\ z_h = Nenhum /\ custo_h = Nenhum /\ status_h = Nenhum
    /\ combinacoes = Nenhum /\ z_bruto = Nenhum /\ pesquisa = Nenhum /\ df_fob = Nenhum
    /\ erro = Nenhum
    /\ InitDespachoNLP
    /\ \E d \in [PeriodosITR2 -> OrdensITR] :
          ordens = [h \in Heuristicas |->
                       CASE h \in {"isa", "isb"} -> <<"G1", "G2", "G3">>
                         [] h = "isc" -> <<"G2", "G1", "G3">>
                         [] h = "isd" -> d
                         [] h = "isg" -> [t \in PeriodosITR2 |-> <<"G3", "G2", "G1">>]
                         [] h = "ils" -> [t \in PeriodosITR2 |->
                                             IF t = 0 THEN <<"G2", "G1", "G3">>
                                             ELSE <<"G3", "G2", "G1">>]]
    /\ n_iter \in Iteracoes
    /\ sorteios = << >>
    /\ rodada = 0 /\ relevancia = Nenhum /\ ordem_final = << >>
    /\ resultado = Nenhum

SpecITR2 == InitITR2 /\ [][NextITR]_vars

\* one period, heuristics whose orders may leave generators out, and a run
\* that may make no trial at all
OrdensComFalta == { <<"G3", "G2", "G1">>, <<"G2", "G3">>, <<"G3">> }

IteracoesComZero == {0, 1, 2}

InitITR3 ==
    /\ pc = "itr"
    /\ dger = Nenhum /\ cargas = Nenhum /\ prioridades = Nenhum
    /\ ligados_g = Nenhum /\ df_on_off = Nenhum
    /\ ligados_r = Nenhum /\ df_refinado = Nenhum
    /\ z_h = Nenhum /\ custo_h = Nenhum /\ status_h = Nenhum
    /\ combinacoes = Nenhum /\ z_bruto = Nenhum /\ pesquisa = Nenhum /\ df_fob = Nenhum
    /\ erro = Nenhum
    /\ InitDespachoNLP
    /\ \E g \in [Globais -> OrdensComFalta], p \in [Heuristicas \ Globais -> [PeriodosITR -> OrdensComFalta]] :
          ordens = [h \in Heuristicas |-> IF h \in Globais THEN g[h] ELSE p[h]]
    /\ n_iter \in IteracoesComZero
    /\ sorteios = << >>
    /\ rodada = 0 /\ relevancia = Nenhum /\ ordem_final = << >>
    /\ resultado = Nenhum

SpecITR3 == InitITR3 /\ [][NextITR]_vars

----------------------------------------------------------------------------
(* model_nlp/despacho_nlp.py: the two readers of the cost of a model built  *)
(* in fixed-commitment mode, on the values found in P.                      *)

\* a variant that leaves the commitment out of the cost of a generator
custo_lido_sem_z(g, p, z) == g.a + g.b * p + g.c * p * p

\* get_custos_tempo, line 480: (a + b*p + c*p**2) * z
custo_lido(g, p, z) == (g.a + g.b * p + g.c * p * p) * z

\* get_custos_tempo, line 479: self.z_fixo.get((g, t), 1)
z_get(z_fixo, g, t) == IF <<g, t>> \in DOMAIN z_fixo THEN z_fixo[<<g, t>>] ELSE 1

\* get_custos_tempo, lines 476-481: custo_t over the generators i..
RECURSIVE custo_t(_, _, _, _, _)
custo_t(geradores, z_fixo, P, t, i) ==
    IF i > Len(geradores) THEN 0
    ELSE custo_lido(geradores[i], P[<<geradores[i].id, t>>], z_get(z_fixo, geradores[i].id, t))
         + custo_t(geradores, z_fixo, P, t, i + 1)

\* _termo_a, lines 374-377, for one period: a*z + b*P + c*P**2 over the
\* generators i..
RECURSIVE _termo_a_t(_, _, _, _, _)
_termo_a_t(geradores, z_fixo, P, t, i) ==
    IF i > Len(geradores) THEN 0
    ELSE LET g == geradores[i]
             p == P[<<g.id, t>>]
         IN g.a * z_fixo[<<g.id, t>>] + g.b * p + g.c * p * p
            + _termo_a_t(geradores, z_fixo, P, t, i + 1)

\* _termo_a over the periods 0..t
RECURSIVE _termo_a(_, _, _, _)
_termo_a(geradores, z_fixo, P, t) ==
    IF t < 0 THEN 0
    ELSE _termo_a_t(geradores, z_fixo, P, t, 1) + _termo_a(geradores, z_fixo, P, t - 1)

\* limits and cost curves of the two generators, and the values P may hold
LimitesLidos == { <<1, 1>>, <<1, 2>> }
PotenciasLidas == {0, 1, 2}

GeradoresLidos ==
    { [i \in DOMAIN IdsFB |->
          [id |-> IdsFB[i], pgmin |-> lim[i][1], pgmax |-> lim[i][2],
           a |-> cur[i][1], b |-> cur[i][2], c |-> cur[i][3]]] :
        lim \in [DOMAIN IdsFB -> LimitesLidos], cur \in [DOMAIN IdsFB -> Curvas] }

PeriodosLidos == {0, 1}

\* a model built in fixed-commitment mode for two periods, some commitment
\* z_fixo, and some values in P
InitLeitura ==
    /\ pc = "leitura"
    /\ dger \in GeradoresLidos
    /\ cargas = Nenhum /\ prioridades = Nenhum
    /\ ligados_g = Nenhum /\ df_on_off = Nenhum
    /\ ligados_r = Nenhum /\ df_refinado = Nenhum
    /\ z_h \in [Range(IdsFB) \X PeriodosLidos -> {0, 1}]
    /\ custo_h = Nenhum /\ status_h = Nenhum
    /\ combinacoes = Nenhum /\ z_bruto = Nenhum /\ pesquisa = Nenhum /\ df_fob = Nenhum
    /\ erro = Nenhum
    /\ model = "ConcreteModel" /\ _usar_odf = FALSE
    /\ ativas = ativas_construido /\ x_bounds = x_bounds_construido
    /\ obj = _construir_objetivo(FALSE)
    /\ valores \in [Range(IdsFB) \X PeriodosLidos -> PotenciasLidas]
    /\ dual = {}
    /\ status = Nenhum /\ modo_solve = Nenhum
    /\ retorno = Nenhum /\ chamadas = << >>
    /\ InitSemITR

\* get_custos_tempo, lines 464-483, on the values in P
ler_custos_tempo ==
    /\ pc \in {"leitura", "lido_total"}
    /\ custo_h' = [t \in PeriodosLidos |-> custo_t(dger, z_h, valores, t, 1)]
    /\ pc' = IF pc = "leitura" THEN "lido_custos" ELSE "lido"
    /\ chamadas' = registra("get_custos_tempo")
    /\ UNCHANGED <<dger, cargas, prioridades, selVars, z_h, status_h, fbVars, erro,
                   model, _usar_odf, ativas, x_bounds, obj, valores, dual, status,
                   modo_solve, retorno, itrVars, resultado>>

\* get_resultados, line 459: custo_total = value(self.model.obj), the
\* objective built without ODF
ler_custo_total ==
    /\ pc \in {"leitura", "lido_custos"}
    /\ obj = "termo_a"
    /\ retorno' = _termo_a(dger, z_h, valores, 1)
    /\ pc' = IF pc = "leitura" THEN "lido_total" ELSE "lido"
    /\ chamadas' = registra("get_resultados")
    /\ UNCHANGED <<dger, cargas, prioridades, selVars, heuVars, fbVars, erro,
                   model, _usar_odf, ativas, x_bounds, obj, valores, dual, status,
                   modo_solve, itrVars, resultado>>

NextLeitura == ler_custos_tempo \/ ler_custo_total

SpecLeitura == InitLeitura /\ [][NextLeitura]_vars

----------------------------------------------------------------------------
(* Properties of the Commitment Selector *)

\* the generators a status frame commits in its row i
Comprometidos(df, i) == { g \in DOMAIN df[i] \ {"hora"} : df[i][g] = 1 }

RECURSIVE SomaIdx(_, _, _)
SomaIdx(S, campo, i) ==
    IF i = 0 THEN 0
    ELSE (IF dger[i].id \in S THEN dger[i][campo] ELSE 0) + SomaIdx(S, campo, i - 1)

\* the sum of a field over the generators of the set S
Soma(S, campo) == SomaIdx(S, campo, Len(dger))

\* the feasibility invariant of a committed set S for the load record c
Atende(S, c) ==
    Soma(S, "pgmin") <= c.carga /\ Soma(S, "pgmax") >= c.carga + c.reserva

ExisteViavel(c) == \E S \in SUBSET IdSet \ {{}} : Atende(S, c)

\* C1: for every period, the set committed by on_off and by on_off_refinado has
\* pgmin-sum <= demand and pgmax-sum >= demand + reserve whenever some subset
\* of the generators is feasible for that period.
C1_ViabilidadeSempreQueExiste ==
    pc = "refinado" =>
        \A t \in DOMAIN cargas :
            ExisteViavel(cargas[t]) =>
                /\ Atende(Comprometidos(df_on_off, t), cargas[t])
                /\ Atende(Comprometidos(df_refinado, t), cargas[t])

\* C2: refinement never worsens feasibility: in every period where the set
\* committed by on_off is feasible, the set committed by on_off_refinado on the
\* same input is feasible too.
C2_RefinoMantemViabilidade ==
    pc = "refinado" =>
        \A t \in DOMAIN cargas :
            Atende(Comprometidos(df_on_off, t), cargas[t]) =>
                Atende(Comprometidos(df_refinado, t), cargas[t])

\* a period where on_off is feasible and refinar swapped the last generator
C2_Witness ==
    /\ pc = "refinado"
    /\ \E t \in DOMAIN cargas :
          /\ Atende(Comprometidos(df_on_off, t), cargas[t])
          /\ Comprometidos(df_refinado, t) # Comprometidos(df_on_off, t)
          /\ Atende(Comprometidos(df_refinado, t), cargas[t])

\* C5: for every period, comb_viaveis returns exactly the non-empty subsets of
\* the generators with pgmin-sum <= demand and pgmax-sum >= demand + reserve,
\* each of them once.
C5_CombViaveisExato ==
    pc = "combinado" =>
        \A t \in DOMAIN combinacoes :
            /\ Range(combinacoes[t]) =
                   { S \in SUBSET IdSet \ {{}} : Atende(S, cargas[t + 1]) }
            /\ \A i, j \in DOMAIN combinacoes[t] :
                   i # j => combinacoes[t][i] # combinacoes[t][j]

\* comb_viaveis kept subsets of two sizes while other subsets were rejected
C5_Witness ==
    /\ pc = "combinado"
    /\ \E t \in DOMAIN combinacoes :
          /\ \E i, j \in DOMAIN combinacoes[t] :
                Cardinality(combinacoes[t][i]) # Cardinality(combinacoes[t][j])
          /\ Len(combinacoes[t]) < 7
          /\ \E S \in SUBSET IdSet \ {{}} : ~Atende(S, cargas[t + 1])

----------------------------------------------------------------------------
(* Properties of the heuristic driver and of forca_bruta *)

\* the {(g, t): 0/1} mapping on_off decided, t counted from 0
MatrizOnOff ==
    [k \in Range(ids_de(dger)) \X (0..(Len(cargas) - 1)) |->
        IF k[1] \in Range(ligados_g[k[2] + 1]) THEN 1 ELSE 0]

\* the {(g, t): 0/1} mapping of the subsets melhor_fob_h retained
MatrizFB ==
    LET melhores == melhores_por_t(pesquisa, 1, << >>)
    IN [k \in Range(ids_de(dger)) \X DOMAIN melhores |->
           z_bruto[k[2]][melhores[k[2]][1] + 1][k]]

\* the generators the brute-force frame commits in its row i
ComprometidosFB(i) == { g \in Range(ids_de(dger)) : df_fob[i][g] = 1 }

\* C3: for every period the brute-force frame reports, the cost of the
\* heuristic's dispatch for that period is >= the FOB retained by forca_bruta,
\* and equal to it when the heuristic committed the retained subset.
C3_CustoHeuristicoLimitado ==
    (pc = "fim" /\ erro = Nenhum) =>
        \A i \in DOMAIN df_fob :
            LET t == df_fob[i].hora
            IN /\ custo_h[t] >= df_fob[i].FOB
               /\ Comprometidos(df_on_off, t + 1) = ComprometidosFB(i)
                      => custo_h[t] = df_fob[i].FOB

\* C4 (on_off frames): decoding the frame of on_off with gerar_z_fixo gives
\* back the mapping on_off decided, for every (generator, period) pair, the
\* period being the row position although 'hora' holds another value.
C4_IdaEVoltaOnOff ==
    pc # "inicio" => gerar_z_fixo(df_on_off) = MatrizOnOff

\* a frame whose 'hora' values all differ from the row positions and whose two
\* rows commit different sets
C4_Witness ==
    /\ pc # "inicio"
    /\ \A i \in DOMAIN df_on_off : df_on_off[i].hora # i - 1
    /\ Comprometidos(df_on_off, 1) # Comprometidos(df_on_off, 2)
    /\ z_h = MatrizOnOff

\* C4 as stated: the round trip holds for the frame of on_off and for the
\* frame of melhor_fob_h alike.
C4_IdaEVolta ==
    /\ pc # "inicio" => gerar_z_fixo(df_on_off) = MatrizOnOff
    /\ (pc = "fim" /\ erro = Nenhum) => gerar_z_fixo(df_fob) = MatrizFB

\* C6: after forca_bruta, every period that has no feasible subset is present
\* in the result table, in a row of its own.
C6_PeriodoSemSolucaoRelatado ==
    pc = "fim" =>
        \A t \in DOMAIN combinacoes :
            combinacoes[t] = << >> =>
                /\ erro = Nenhum
                /\ \E i \in DOMAIN df_fob : df_fob[i].hora = t

\* the columns of row i of the on_off frame other than 'hora'
SemHora(i) == [g \in DOMAIN df_on_off[i] \ {"hora"} |-> df_on_off[i][g]]

\* C7: a period where on_off exhausted the order without the invariant holding
\* can be told from a period with a feasible commitment by the result alone:
\* their rows differ in some column other than 'hora'.
C7_InviabilidadeDetectavel ==
    pc # "inicio" =>
        \A t1, t2 \in DOMAIN cargas :
            (/\ ~Atende(Comprometidos(df_on_off, t1), cargas[t1])
             /\ Atende(Comprometidos(df_on_off, t2), cargas[t2]))
                => SemHora(t1) # SemHora(t2)

----------------------------------------------------------------------------
(* Properties of DespachoNLP *)

Excecoes == {"RuntimeError", "ValueError", "KeyError", "AttributeError", "TypeError"}

ultima == IF chamadas = << >> THEN Nenhum ELSE chamadas[Len(chamadas)]

\* C8: get_resultados and get_custos_tempo return values of a solved model
\* only when the last solve ended optimal.
C8_StatusPropagado ==
    (retorno \in {"resultados", "custos"} /\ status # Nenhum) => status = "optimal"

\* C9: get_lagrangianos raises when there was no solve or the last solve was
\* not made in ODF mode, and returns multipliers only after a solve in ODF
\* mode with the x-bound constraints active.
C9_LagrangianosSoAposOdf ==
    ultima = "get_lagrangianos" =>
        /\ modo_solve # "odf" => retorno \in Excecoes
        /\ retorno = "lambdas" => (modo_solve = "odf" /\ restr_x \subseteq dual)

\* C10: on a built model, usar_odf(True); usar_odf(False) leaves the active
\* constraints and the bounds of x as construir_modelo leaves them, and
\* usar_odf(False); usar_odf(True) leaves them as usar_odf(True) alone does.
C10_TrocaDeModoReverte ==
    model # Nenhum =>
        /\ chamadas = <<"usar_odf(True)", "usar_odf(False)">> =>
               (ativas = ativas_construido /\ x_bounds = x_bounds_construido)
        /\ chamadas = <<"usar_odf(False)", "usar_odf(True)">> =>
               (/\ ativas = usar_odf_ativas(ativas_construido, TRUE)
                /\ x_bounds = usar_odf_bounds(TRUE))

\* C11: construir_modelo on an instance that already has a model leaves the
\* active constraints, the bounds of x, the selected mode and the objective
\* as they were, and so does a solve of an instance that already has a model.
C11_ConstruirIdempotente ==
    [][ /\ (construir_modelo /\ model # Nenhum)
              => UNCHANGED <<ativas, x_bounds, _usar_odf, obj>>
        /\ (solve /\ model # Nenhum)
              => UNCHANGED <<ativas, x_bounds, _usar_odf, obj>> ]_vars

----------------------------------------------------------------------------
(* Properties of the Relevance Ensemble *)

----------------------------------------------------------------------------
(* Properties of the priority strategies *)

\* position of the generator g in the list of records
PosicaoEm(geradores, g) == CHOOSE i \in DOMAIN geradores : geradores[i].id = g

\* the score the strategy of `resultado` ranks generator g by in period t
Pontuacao(g, t) ==
    LET ger == mapa_gerador(dger, g)
        e   == resultado.estrategia
    IN CASE e = "isa" -> is_a(ger.a, ger.b, ger.c, ger.pgmax)
         [] e = "isb" -> <<2 * ger.b + 2 * ger.c * (ger.pgmin + ger.pgmax), 2>>
         [] e = "isc" -> <<2 * ger.mtu * ger.pgmax * (ger.b + 2 * ger.c * ger.pgmax)
                             + ger.hot + ger.cold, 2 * ger.mtu * ger.pgmax>>
         [] e = "isd" -> is_d(ger.a, ger.b, ger.c, pg_isd(ger, resultado.leitura[g][t]))
         [] e = "isg" -> <<fob_isg(ger, cargas[t + 1]), 1>>
         [] e = "ils" -> <<0 - resultado.leitura[<<g, t>>], 1>>

\* `lista` holds every generator id once, in non-decreasing score, equal
\* scores in the order of the records
OrdemTotalEstavel(lista, t) ==
    /\ Len(lista) = Len(dger)
    /\ Range(lista) = Range(ids_de(dger))
    /\ \A i, j \in DOMAIN lista :
          i < j =>
              /\ ~menor(Pontuacao(lista[j], t), Pontuacao(lista[i], t))
              /\ ~menor(Pontuacao(lista[i], t), Pontuacao(lista[j], t))
                     => PosicaoEm(dger, lista[i]) < PosicaoEm(dger, lista[j])

\* the last strategy run returned (priorizar_isd may raise instead)
Retornou == pc \in {"pri_isb", "pri_isc", "pri_isd", "pri_isg", "pri_ils", "pri_fim"}

\* C13: what a priority strategy returns, globally or for each period, is a
\* permutation of all generator ids in non-decreasing score (for lagrangianos
\* non-increasing multiplier), equal scores in the generators' input order.
C13_OrdemTotalEstavel ==
    Retornou =>
        IF resultado.estrategia \in Globais
        THEN OrdemTotalEstavel(resultado.retorno, 0)
        ELSE \A t \in DOMAIN resultado.retorno : OrdemTotalEstavel(resultado.retorno[t], t)

\* a strategy returned an order that is not the input order although two
\* generators have the same score
C13_Witness ==
    /\ Retornou
    /\ resultado.estrategia \in {"isc", "isd", "ils"}
    /\ LET lista == IF resultado.estrategia \in Globais THEN resultado.retorno
                    ELSE resultado.retorno[0]
       IN /\ lista # ids_de(dger)
          /\ \E i, j \in DOMAIN lista :
                /\ i < j
                /\ ~menor(Pontuacao(lista[i], 0), Pontuacao(lista[j], 0))

----------------------------------------------------------------------------
(* Frame of the strategies and of the selectors *)

\* the fields read_m.py gives a record and the strategies rely on
Nucleo == {"id", "pgmin", "pgmax", "a", "b", "c", "mtu", "hot", "cold"}

\* the fields the strategies attach
Indices == {"isa", "isb", "cp", "isc"}

\* C14: a step of the strategies and of the selectors keeps the number and
\* the order of the generator records and their id, pgmin, pgmax, a, b, c,
\* mtu, hot and cold, adds to a record only the fields isa, isb, cp and isc,
\* and on_off, on_off_refinado and comb_viaveis leave the order they were
\* given as it was.
C14_SoAnexaIndices ==
    [][ /\ DOMAIN dger' = DOMAIN dger
        /\ \A i \in DOMAIN dger :
              /\ \A k \in Nucleo : dger'[i][k] = dger[i][k]
              /\ DOMAIN dger[i] \subseteq DOMAIN dger'[i]
              /\ (DOMAIN dger'[i]) \ (DOMAIN dger[i]) \subseteq Indices
        /\ pc \in {"pri_fim", "pri_on_off", "pri_refinado"} => resultado' = resultado ]_vars

\* the three annotating strategies ran, refinement swapped the last
\* generator of some period, and the feasible subsets were enumerated
C14_Witness ==
    /\ pc = "pri_comb"
    /\ \A i \in DOMAIN dger : DOMAIN dger[i] = Nucleo \cup Indices
    /\ \E t \in DOMAIN ligados_g : ligados_r[t] # ligados_g[t]
    /\ \E g \in DOMAIN dger : dger[g].c # 0

----------------------------------------------------------------------------
(* Properties of the greedy walk and of the refinement *)

\* the first k generators of the priority order meet the invariant for c
PrefixoAtende(k, c) == Atende(Range(SubSeq(prioridades, 1, k)), c)

\* the length of the shortest prefix meeting the invariant, the whole order
\* when there is none
MenorPrefixo(c) ==
    LET ks == { k \in 1..Len(prioridades) : PrefixoAtende(k, c) }
    IN IF ks = {} THEN Len(prioridades)
       ELSE CHOOSE k \in ks : \A j \in ks : k <= j

C16_TrocaNaoInsercao ==
    pc \in {"refinado", "combinado"} =>
        \A t \in DOMAIN cargas :
            LET n == Len(ligados_g[t])
            IN /\ Len(ligados_r[t]) = n
               /\ Cardinality(Comprometidos(df_refinado, t)) =
                      Cardinality(Comprometidos(df_on_off, t))
               /\ SubSeq(ligados_r[t], 1, n - 1) = SubSeq(ligados_g[t], 1, n - 1)
               /\ Range(SubSeq(ligados_g[t], 1, n - 1)) \subseteq Comprometidos(df_refinado, t)

\* a prefix of two generators whose second one was replaced
C16_Witness ==
    /\ pc = "refinado"
    /\ \E t \in DOMAIN cargas :
          /\ Len(ligados_g[t]) = 2
          /\ ligados_r[t][2] # ligados_g[t][2]
          /\ ligados_r[t][1] = ligados_g[t][1]

\* the record of generator g among the records read
Ger(g) == dger[PosicaoEm(dger, g)]

\* the output refinar estimates for the last generator of on_off's prefix
GeracaoUltimo(t) ==
    LET n == Len(ligados_g[t])
    IN geracao_estimada(Ger(ligados_g[t][n]),
                        Soma(Range(SubSeq(ligados_g[t], 1, n - 1)), "pgmax"),
                        cargas[t].carga)

\* a + b*P + c*P^2
CustoEm(g, P) == Ger(g).a + Ger(g).b * P + Ger(g).c * P * P

\* C17: where on_off_refinado committed another last generator than on_off,
\* the new one was not committed by on_off, its [pgmin, pgmax] holds the
\* estimated output, the set with it in place of the last generator meets
\* the feasibility invariant, and its cost at that output is strictly lower
\* than the cost of the generator it replaced.
C17_TrocaSoSeMelhor ==
    pc \in {"refinado", "combinado"} =>
        \A t \in DOMAIN cargas :
            ligados_r[t] # ligados_g[t] =>
                LET n      == Len(ligados_g[t])
                    ultimo == ligados_g[t][n]
                    cand   == ligados_r[t][n]
                    P      == GeracaoUltimo(t)
                IN /\ cand \notin Range(ligados_g[t])
                   /\ Ger(cand).pgmin <= P /\ P <= Ger(cand).pgmax
                   /\ Atende(Range(SubSeq(ligados_g[t], 1, n - 1)) \cup {cand}, cargas[t])
                   /\ CustoEm(cand, P) < CustoEm(ultimo, P)

\* refinar ran on a feasible prefix and kept its last generator although a
\* generator outside the prefix, fit for the swap, costs exactly as much at
\* the estimated output
C17_Witness ==
    /\ pc = "refinado"
    /\ \E t \in DOMAIN cargas :
          LET n == Len(ligados_g[t])
              P == GeracaoUltimo(t)
          IN /\ Atende(Range(ligados_g[t]), cargas[t])
             /\ ligados_r[t] = ligados_g[t]
             /\ \E g \in IdSet \ Range(ligados_g[t]) :
                   /\ Ger(g).pgmin <= P /\ P <= Ger(g).pgmax
                   /\ Atende(Range(SubSeq(ligados_g[t], 1, n - 1)) \cup {g}, cargas[t])
                   /\ CustoEm(g, P) = CustoEm(ligados_g[t][n], P)

\* the last generator of on_off's prefix and the pgmax-sum of the others
UltimoDe(t) == Ger(ligados_g[t][Len(ligados_g[t])])
SomaAnteriores(t) == Soma(Range(SubSeq(ligados_g[t], 1, Len(ligados_g[t]) - 1)), "pgmax")

\* refinar is called for period t: on_off_refinado found a feasible prefix
RefinarChamado(t) == Atende(Range(ligados_g[t]), cargas[t])

\* C18 (as the code estimates): in refinar the estimated contribution of the
\* last-added generator is the larger of its pgmin and the demand left above
\* the pgmax-sum of the generators committed before it.
C18_EstimativaNuncaAbaixoDePgmin ==
    pc \in {"refinado", "combinado"} =>
        \A t \in DOMAIN cargas :
            RefinarChamado(t) =>
                LET residual == cargas[t].carga - SomaAnteriores(t)
                IN GeracaoUltimo(t) =
                       IF residual > UltimoDe(t).pgmin THEN residual ELSE UltimoDe(t).pgmin

\* refinar ran where the generators committed before do not reach the
\* demand and what is left is less than the pgmin of the last one
C18_Witness ==
    /\ pc = "refinado"
    /\ \E t \in DOMAIN cargas :
          /\ RefinarChamado(t)
          /\ SomaAnteriores(t) < cargas[t].carga
          /\ cargas[t].carga - SomaAnteriores(t) < UltimoDe(t).pgmin

\* C18 as stated: the estimate is the pgmin of the last-added generator when
\* the pgmax-sum of the generators committed before reaches the demand, and
\* otherwise the demand minus that pgmax-sum.
C18_EstimativaResidual ==
    pc \in {"refinado", "combinado"} =>
        \A t \in DOMAIN cargas :
            RefinarChamado(t) =>
                GeracaoUltimo(t) =
                    IF SomaAnteriores(t) >= cargas[t].carga
                    THEN UltimoDe(t).pgmin
                    ELSE cargas[t].carga - SomaAnteriores(t)

----------------------------------------------------------------------------
(* Properties of melhor_fob_h *)

\* the entries of `pesquisa` of period t
EntradasDe(t) == { k \in DOMAIN pesquisa : pesquisa[k][1] = t }

\* the first entry of period t among those of least objective
PrimeiroMinimo(t) ==
    CHOOSE k \in EntradasDe(t) :
        \A l \in EntradasDe(t) :
            \/ pesquisa[k][3] < pesquisa[l][3]
            \/ pesquisa[k][3] = pesquisa[l][3] /\ k <= l

\* C19: for every period with an evaluated subset, the frame of melhor_fob_h
\* has one row, whose FOB is the least objective evaluated for the period and
\* whose 0/1 columns are those of the first subset, in enumeration order,
\* that has this objective.
C19_MenorFobPrimeiroNoEmpate ==
    (pc = "fim" /\ erro = Nenhum) =>
        \A t \in DOMAIN combinacoes :
            EntradasDe(t) # {} =>
                LET k == PrimeiroMinimo(t)
                IN \E i \in DOMAIN df_fob :
                      /\ df_fob[i].hora = t
                      /\ \A i2 \in DOMAIN df_fob : df_fob[i2].hora = t => i2 = i
                      /\ df_fob[i].FOB = pesquisa[k][3]
                      /\ \A l \in EntradasDe(t) : df_fob[i].FOB <= pesquisa[l][3]
                      /\ ComprometidosFB(i) = combinacoes[t][pesquisa[k][2] + 1]

\* a period where two subsets share the least objective and a third one,
\* evaluated after them, costs more
C19_Witness ==
    /\ pc = "fim" /\ erro = Nenhum
    /\ \E t \in DOMAIN combinacoes :
          \E k, l, m \in EntradasDe(t) :
              /\ k = PrimeiroMinimo(t)
              /\ k < l /\ pesquisa[l][3] = pesquisa[k][3]
              /\ l < m /\ pesquisa[m][3] > pesquisa[k][3]

----------------------------------------------------------------------------
(* The objective a solve minimises *)

\* C20: the objective of a solved model is the one of the mode selected at
\* the solve: the ODF-weighted cost plus the penalised slack after
\* usar_odf(True), the sum of a*z + b*P + c*P^2 in fixed-commitment mode.
C20_ObjetivoDoModoSelecionado ==
    /\ modo_solve = "odf" => obj = "termo_a_odf + termo_d"
    /\ modo_solve = "fixo" => obj = "termo_a"

----------------------------------------------------------------------------
(* The two constraint families of DespachoNLP *)

\* C21: on a built model exactly one family of constraints is active, the
\* fixed-commitment one (restr_sup, restr_inf, restr_demanda, restr_reserva)
\* or the ODF one (restr_sup_odf, restr_inf_odf, restr_demanda_odf,
\* restr_reserva_odf), and it is the one the flag _usar_odf selects.
C21_UmaFamiliaAtivaConformeModo ==
    model # Nenhum =>
        \/ /\ ~_usar_odf
           /\ {"restr_sup", "restr_inf", "restr_demanda", "restr_reserva"} \subseteq ativas
           /\ ativas \cap {"restr_sup_odf", "restr_inf_odf", "restr_demanda_odf",
                           "restr_reserva_odf"} = {}
        \/ /\ _usar_odf
           /\ {"restr_sup_odf", "restr_inf_odf", "restr_demanda_odf",
               "restr_reserva_odf"} \subseteq ativas
           /\ ativas \cap {"restr_sup", "restr_inf", "restr_demanda", "restr_reserva"} = {}

----------------------------------------------------------------------------
(* Properties of the relevance table *)

\* the order heuristic h gives for period t
OrdemDe(h, t) == IF h \in Globais THEN ordens[h] ELSE ordens[h][t]

\* 0-indexed position of g in the order drawn for period t in trial i
PosicaoSorteada(i, t, g) ==
    CHOOSE p \in 0..(Len(Ids) - 1) : OrdemDe(sorteios[i][t], t)[p + 1] = g

\* sum over the trials 1..i of 1/(1+p), in sixths
RECURSIVE SomaDosPesos(_, _, _)
SomaDosPesos(i, t, g) ==
    IF i = 0 THEN 0
    ELSE (6 \div (1 + PosicaoSorteada(i, t, g))) + SomaDosPesos(i - 1, t, g)

\* C22: after the n_iter trials of tabela_relevancia the accumulator of
\* generator g in period t is the sum over the trials of 1/(1+p), p the
\* 0-indexed position of g in the order drawn for that period in that trial,
\* and the final order of each period holds every generator once, by
\* descending accumulated relevance.
C22_RelevanciaAcumulada ==
    rodada > 0 =>
        \A t \in periodos_itr :
            /\ \A g \in IdSet : valor_rel(relevancia[t], g) = SomaDosPesos(n_iter, t, g)
            /\ LET final == ordem_final[Len(ordem_final)][t]
               IN /\ Len(final) = Len(Ids) /\ Range(final) = IdSet
                  /\ \A i, j \in DOMAIN final :
                        i < j => valor_rel(relevancia[t], final[i]) >=
                                     valor_rel(relevancia[t], final[j])

\* two trials were made, in one of them the two periods drew heuristics
\* with different orders, and the final orders of the periods differ
C22_Witness ==
    /\ rodada > 0 /\ n_iter = 2
    /\ \E i \in DOMAIN sorteios :
          /\ sorteios[i][0] # sorteios[i][1]
          /\ OrdemDe(sorteios[i][0], 0) # OrdemDe(sorteios[i][1], 1)
    /\ ordem_final[1][0] # ordem_final[1][1]

----------------------------------------------------------------------------
(* Properties of the demand-coverage index *)

\* the score of generator record g for the load record c: cost at
\* demand + reserve when pgmax covers it, cost at pgmax plus 1000 per MW
\* short when pgmax covers the demand only, (demand + reserve) * 1000 otherwise
PontuacaoCobertura(g, c) ==
    LET total == c.carga + c.reserva
    IN IF g.pgmax >= total
       THEN g.a + g.b * total + g.c * total * total
       ELSE IF g.pgmax >= c.carga
       THEN g.a + g.b * g.pgmax + g.c * g.pgmax * g.pgmax + 1000 * (total - g.pgmax)
       ELSE total * 1000

\* C23: is_g scores every generator in every period by the three cases
\* above, and the order it returns for a period is ascending in that score.
C23_IndiceDeCobertura ==
    (pc = "pri_ils" /\ resultado.estrategia = "isg") =>
        \A t \in DOMAIN resultado.retorno :
            /\ \A i \in DOMAIN dger :
                  fob_isg(dger[i], cargas[t + 1]) = PontuacaoCobertura(dger[i], cargas[t + 1])
            /\ \A i, j \in DOMAIN resultado.retorno[t] :
                  i < j => PontuacaoCobertura(Ger(resultado.retorno[t][i]), cargas[t + 1])
                              <= PontuacaoCobertura(Ger(resultado.retorno[t][j]), cargas[t + 1])

----------------------------------------------------------------------------
(* Properties of the dual-sensitivity index *)

Abs(n) == IF n < 0 THEN 0 - n ELSE n

\* C24: in the order lagrangianos returns for a period, a generator whose
\* x_ub multiplier has the larger absolute value comes before one with the
\* smaller absolute value, whatever the signs.
C24_OrdemPorMagnitude ==
    (pc = "pri_fim" /\ resultado.estrategia = "ils") =>
        \A t \in DOMAIN resultado.retorno :
            \A i, j \in DOMAIN resultado.retorno[t] :
                i < j => Abs(resultado.leitura[<<resultado.retorno[t][i], t>>])
                            >= Abs(resultado.leitura[<<resultado.retorno[t][j], t>>])

----------------------------------------------------------------------------
(* Properties of priorizar_isd *)

\* the generation the average cost of generator record g is taken at in
\* period t: the optimal point read from the solver, pgmin when that is 0
PontoDeAvaliacao(g, t) ==
    IF resultado.leitura[g.id][t] > 0 THEN resultado.leitura[g.id][t] ELSE g.pgmin

\* (a + b*P + c*P^2) / P of g at P1 is at most that of h at P2 (P1, P2 > 0)
CustoMedioMenorOuIgual(g, P1, h, P2) ==
    (g.a + g.b * P1 + g.c * P1 * P1) * P2 <= (h.a + h.b * P2 + h.c * P2 * P2) * P1

\* C25: priorizar_isd ranks by the average cost at the optimal point Pgt
\* when Pgt > 0 and at pgmin when Pgt is 0; when some generator has Pgt = 0
\* and pgmin = 0 in some period the call ends in a division error and
\* returns no order.
C25_FallbackOuErroDeDivisao ==
    pc \in {"pri_isg", "pri_erro"} =>
        LET periodos == 0..(Len(cargas) - 1)
            falha == \E i \in DOMAIN dger, t \in periodos :
                        resultado.leitura[dger[i].id][t] = 0 /\ dger[i].pgmin = 0
        IN IF falha
           THEN pc = "pri_erro" /\ resultado.retorno = "ZeroDivisionError"
           ELSE /\ pc = "pri_isg"
                /\ \A t \in periodos :
                      LET lista == resultado.retorno[t]
                      IN /\ Range(lista) = Range(ids_de(dger))
                         /\ \A i, j \in DOMAIN lista :
                               i < j => CustoMedioMenorOuIgual(
                                            Ger(lista[i]), PontoDeAvaliacao(Ger(lista[i]), t),
                                            Ger(lista[j]), PontoDeAvaliacao(Ger(lista[j]), t))

\* the call failed on a generator with Pgt = 0 and pgmin = 0 while another
\* generator with Pgt = 0 has a positive pgmin to fall back to
C25_Witness ==
    /\ pc = "pri_erro"
    /\ \E i, j \in DOMAIN dger :
          /\ resultado.leitura[dger[i].id][0] = 0 /\ dger[i].pgmin = 0
          /\ resultado.leitura[dger[j].id][0] = 0 /\ dger[j].pgmin > 0

----------------------------------------------------------------------------
(* Properties of z_bruto_completo *)

\* C26: every z_fixo built by z_bruto_completo for period t has an entry
\* (g, t) for every generator g of the fleet given to forca_bruta, also for
\* a generator that is in no feasible subset of any period.
C26_ZFixoCobreAFrota ==
    pc = "fim" =>
        \A t \in DOMAIN z_bruto : \A j \in DOMAIN z_bruto[t] :
            \A i \in DOMAIN dger : <<dger[i].id, t>> \in DOMAIN z_bruto[t][j]

----------------------------------------------------------------------------
(* Properties of the cost readers *)

\* the values in P meet the bounds of the fixed-commitment mode
DentroDosLimites ==
    \A i \in DOMAIN dger, t \in PeriodosLidos :
        LET p == valores[<<dger[i].id, t>>]
            z == z_h[<<dger[i].id, t>>]
        IN p >= 0 /\ dger[i].pgmin * z <= p /\ p <= dger[i].pgmax * z

\* C27: in fixed-commitment mode, when P meets pmin*z <= P <= pmax*z, the
\* costs per period of get_custos_tempo add up to the total objective that
\* get_resultados returns.
C27_CustosPorPeriodoSomamOTotal ==
    (pc = "lido" /\ DentroDosLimites) => custo_h[0] + custo_h[1] = retorno

\* both readers ran on values within the bounds, with a generator that has
\* a fixed cost switched off in one period and generating in the other
C27_Witness ==
    /\ pc = "lido" /\ DentroDosLimites
    /\ \E i \in DOMAIN dger :
          /\ dger[i].a > 0
          /\ z_h[<<dger[i].id, 0>>] = 0
          /\ z_h[<<dger[i].id, 1>>] = 1 /\ valores[<<dger[i].id, 1>>] > 0

----------------------------------------------------------------------------
(* Algebraic properties of the relevance table *)

\* the six heuristics give the same order for period t
Unanimes(t) == \A h \in Heuristicas : OrdemDe(h, t) = OrdemDe("isa", t)

\* C28: for a period where the six heuristics give the same order of all
\* generators, the final order of tabela_relevancia is that order, for any
\* number of trials and any draws.
C28_Unanimidade ==
    rodada > 0 =>
        \A t \in periodos_itr :
            Unanimes(t) =>
                \A k \in DOMAIN ordem_final : ordem_final[k][t] = OrdemDe("isa", t)

\* two trials with different draws on six equal orders that are not the
\* order of the generator records
C28_Witness ==
    /\ rodada > 0 /\ n_iter = 2
    /\ Unanimes(0) /\ OrdemDe("isa", 0) # Ids
    /\ sorteios[1][0] # sorteios[2][0]

----------------------------------------------------------------------------
(* The candidate refinar chooses *)

\* position of generator g in the priority order
PosicaoNaPrioridade(g) == CHOOSE i \in DOMAIN prioridades : prioridades[i] = g

\* the generators that pass the eligibility test of refinar in period t
Elegiveis(t) ==
    LET n == Len(ligados_g[t])
        P == GeracaoUltimo(t)
    IN { g \in IdSet \ Range(ligados_g[t]) :
           /\ Ger(g).pgmin <= P /\ P <= Ger(g).pgmax
           /\ Atende(Range(SubSeq(ligados_g[t], 1, n - 1)) \cup {g}, cargas[t]) }

\* the eligible generators cheaper than the last one of the prefix
MaisBaratos(t) ==
    { g \in Elegiveis(t) :
        CustoEm(g, GeracaoUltimo(t)) < CustoEm(ligados_g[t][Len(ligados_g[t])], GeracaoUltimo(t)) }

RelevanciaDe(t, g) == IF g \in DOMAIN relevancia[t] THEN relevancia[t][g] ELSE 0

\* position of g among the generator ids given to tabela_relevancia
PosicaoEmIds(g) == CHOOSE i \in DOMAIN Ids : Ids[i] = g

\* C30: the final order of every period holds every generator id once,
\* whatever the number of trials and the draws, also when a drawn order
\* leaves generators out, and generators of equal accumulated relevance
\* keep the order they have in the input.
C30_PermutacaoEstavel ==
    rodada > 0 =>
        \A k \in DOMAIN ordem_final : \A t \in periodos_itr :
            LET final == ordem_final[k][t]
            IN /\ Len(final) = Len(Ids)
               /\ Range(final) = IdSet
               /\ \A i, j \in DOMAIN final :
                     i < j =>
                         /\ RelevanciaDe(t, final[i]) >= RelevanciaDe(t, final[j])
                         /\ RelevanciaDe(t, final[i]) = RelevanciaDe(t, final[j])
                                => PosicaoEmIds(final[i]) < PosicaoEmIds(final[j])

\* a trial drew an order that leaves out two generators, which end with
\* the same relevance
C30_Witness ==
    /\ rodada > 0 /\ n_iter > 0
    /\ \E i \in DOMAIN sorteios : Len(OrdemDe(sorteios[i][0], 0)) = 1
    /\ \E g, h \in IdSet : g # h /\ RelevanciaDe(0, g) = RelevanciaDe(0, h)

====
